---- MODULE Spec2Model ----
(***************************************************************************)
(* DeepTrader: the trading simulator (TradingEnvironment) and the learning *)
(* agent's transition store and learn() bookkeeping (ReplayMemory,         *)
(* DQNAgent), modelled from src/DeepTrader/trading_environment.py and      *)
(* src/DeepTrader/dqn_model.py.                                            *)
(*                                                                         *)
(* Money amounts are Python floats in the source.  They are modelled as    *)
(* exact rationals, so every equality below is the real-number reading of  *)
(* a float equality "to floating tolerance".                               *)
(***************************************************************************)
EXTENDS Integers, Sequences, FiniteSets, TLC

(***************************************************************************)
(* Configuration (src/DeepTrader/config.py) and the model's bounds.        *)
(***************************************************************************)
\* TRADING_CONFIG['initial_balance'], passed to the constructor by main.py
InitialBalance == 1000
\* TRADING_CONFIG['transaction_cost'] = 0.001 = TcNum / TcDen
TcNum == 1
TcDen == 1000
\* DATA_CONFIG['max_position_hold'] = 30 * 24
MaxPositionHold == 720
\* the encoding of Python's None for last_trading_action and start_step
None == -1

\* the number of rows of a feature series
DataLen == 5
\* lookback_window (720 in MODEL_CONFIG), scaled down
LookbackWindow == 1
\* the CLOSE prices a row may carry: a crash price, a base price, a rise
Prices == {5, 100, 120}

SELL == 0
HOLD == 1
BUY == 2
Actions == {SELL, HOLD, BUY}

(***************************************************************************)
(* Exact rationals.  TLC's integers are 32 bits wide and four trades at a  *)
(* 0.1% fee already need 13 digits, so a value x is kept as                *)
(*     x = (n / d) * (FeeNum / FeeDen)^k                                   *)
(* with n/d in lowest terms, d > 0, and neither n nor d divisible by       *)
(* FeePrime, a prime that divides FeeNum once and FeeDen not at all: every *)
(* fee paid moves into k and n, d stay small.  The form is unique, and     *)
(* every operation below is exact.  (Intermediate values are passed as     *)
(* operator parameters rather than named in LET.)                          *)
(***************************************************************************)
FeeNum == TcDen - TcNum
FeeDen == TcDen
IsPrime(p) == \A q \in 2..(p - 1) : p % q # 0
FeePrime ==
    CHOOSE p \in 2..FeeNum :
        /\ FeeNum % p = 0 /\ FeeNum % (p * p) # 0 /\ FeeDen % p # 0 /\ IsPrime(p)
        /\ \A r \in (p + 1)..FeeNum : ~(FeeNum % r = 0 /\ IsPrime(r))

Abs(i) == IF i < 0 THEN -i ELSE i
MaxOf(x, y) == IF x >= y THEN x ELSE y
MinOf(x, y) == IF x <= y THEN x ELSE y

RECURSIVE Gcd(_, _)
Gcd(a, b) == IF b = 0 THEN a ELSE Gcd(b, a % b)

\* (n * a) / (d * b) in lowest terms, for n/d and a/b in lowest terms, b > 0, d > 0
MulFracBy(n, d, a, b, g1, g2) == <<(n \div g1) * (a \div g2), (d \div g2) * (b \div g1)>>
MulFrac(n, d, a, b) == MulFracBy(n, d, a, b, Gcd(Abs(n), b), Gcd(Abs(a), d))

\* moves the factors FeePrime of n and of d into the exponent k
RECURSIVE FeeOut(_, _, _), FeeOutPair(_, _)
FeeOut(n, d, k) ==
    IF n % FeePrime = 0 THEN FeeOutPair(MulFrac(n, d, FeeDen, FeeNum), k + 1)
    ELSE IF d % FeePrime = 0 THEN FeeOutPair(MulFrac(n, d, FeeNum, FeeDen), k - 1)
    ELSE [n |-> n, d |-> d, k |-> k]
FeeOutPair(f, k) == FeeOut(f[1], f[2], k)

RZero == [n |-> 0, d |-> 1, k |-> 0]

\* the canonical form of (n / d) * Fee^k, d # 0
RNormBy(n, d, k, g) == FeeOut((IF d < 0 THEN -1 ELSE 1) * (n \div g), Abs(d) \div g, k)
RNorm(n, d, k) == IF n = 0 THEN RZero ELSE RNormBy(n, d, k, Gcd(Abs(n), Abs(d)))
RNormPair(f, k) == RNorm(f[1], f[2], k)

RInt(i) == RNorm(i, 1, 0)
RFrac(a, b) == RNorm(a, b, 0)

RIsZero(x) == x.n = 0
RIsPos(x) == x.n > 0
RIsNeg(x) == x.n < 0
RNeg(x) == [x EXCEPT !.n = -x.n]
RAbs(x) == [x EXCEPT !.n = Abs(x.n)]

RMul(x, y) == RNormPair(MulFrac(x.n, x.d, y.n, y.d), x.k + y.k)

\* y # 0
RDiv(x, y) ==
    RNormPair(MulFrac(x.n, x.d, IF y.n < 0 THEN -y.d ELSE y.d, Abs(y.n)), x.k - y.k)

\* (n / d) * Fee^j as a plain fraction in lowest terms, j >= 0
RECURSIVE Expand(_, _, _), ExpandPair(_, _)
Expand(n, d, j) ==
    IF j = 0 THEN <<n, d>> ELSE ExpandPair(MulFrac(n, d, FeeNum, FeeDen), j - 1)
ExpandPair(f, j) == Expand(f[1], f[2], j)

AddFracBy(a, b, k, g) ==
    RNorm(a[1] * (b[2] \div g) + b[1] * (a[2] \div g), a[2] * (b[2] \div g), k)
AddFrac(a, b, k) == AddFracBy(a, b, k, Gcd(a[2], b[2]))
AddAt(x, y, k) == AddFrac(Expand(x.n, x.d, x.k - k), Expand(y.n, y.d, y.k - k), k)

RAdd(x, y) ==
    IF RIsZero(x) THEN y
    ELSE IF RIsZero(y) THEN x
    ELSE AddAt(x, y, MinOf(x.k, y.k))

RSub(x, y) == RAdd(x, RNeg(y))

(***************************************************************************)
(* Comparison.  Two values whose fee exponents differ by many trades are   *)
(* compared as n * FeeNum^j against n' * FeeDen^j over arbitrary-size      *)
(* naturals: little-endian sequences of limbs in 0..Base-1.                *)
(***************************************************************************)
Base == 100 * 100

RECURSIVE BOfNat(_)
BOfNat(n) == IF n = 0 THEN << >> ELSE <<n % Base>> \o BOfNat(n \div Base)

Limb(a, i) == IF i <= Len(a) THEN a[i] ELSE 0

RECURSIVE BAddFrom(_, _, _, _), BAddSum(_, _, _, _)
BAddFrom(a, b, i, c) ==
    IF i > MaxOf(Len(a), Len(b))
    THEN (IF c = 0 THEN << >> ELSE <<c>>)
    ELSE BAddSum(a, b, i, Limb(a, i) + Limb(b, i) + c)
BAddSum(a, b, i, s) == <<s % Base>> \o BAddFrom(a, b, i + 1, s \div Base)

BAdd(a, b) == BAddFrom(a, b, 1, 0)

\* -1, 0 or 1 as a < b, a = b, a > b
RECURSIVE BCmpFrom(_, _, _)
BCmpFrom(a, b, i) ==
    IF i = 0 THEN 0
    ELSE IF a[i] < b[i] THEN -1
    ELSE IF a[i] > b[i] THEN 1
    ELSE BCmpFrom(a, b, i - 1)

BCmp(a, b) ==
    IF Len(a) < Len(b) THEN -1
    ELSE IF Len(a) > Len(b) THEN 1
    ELSE BCmpFrom(a, b, Len(a))

\* a * m for a limb-sized m > 0
RECURSIVE BMulSFrom(_, _, _, _), BMulSSum(_, _, _, _)
BMulSFrom(a, m, i, c) ==
    IF i > Len(a)
    THEN (IF c = 0 THEN << >> ELSE <<c>>)
    ELSE BMulSSum(a, m, i, a[i] * m + c)
BMulSSum(a, m, i, s) == <<s % Base>> \o BMulSFrom(a, m, i + 1, s \div Base)

BMulS(a, m) == IF m = 0 THEN << >> ELSE BMulSFrom(a, m, 1, 0)

BShift(a) == IF a = << >> THEN << >> ELSE <<0>> \o a

RECURSIVE BMul(_, _)
BMul(a, b) ==
    IF b = << >> THEN << >>
    ELSE BAdd(BMulS(a, Head(b)), BShift(BMul(a, Tail(b))))

RECURSIVE BPowMul(_, _, _)
BPowMul(a, m, j) == IF j = 0 THEN a ELSE BPowMul(BMul(a, m), m, j - 1)

\* a * FeeNum^j < b * FeeDen^j  (for j < 0: a * FeeDen^-j < b * FeeNum^-j)
BLtAt(a, b, j) ==
    IF j >= 0
    THEN BCmp(BPowMul(a, BOfNat(FeeNum), j), BPowMul(b, BOfNat(FeeDen), j)) < 0
    ELSE BCmp(BPowMul(a, BOfNat(FeeDen), -j), BPowMul(b, BOfNat(FeeNum), -j)) < 0

\* x < y for x, y > 0
PosLt(x, y) ==
    BLtAt(BMul(BOfNat(x.n), BOfNat(y.d)), BMul(BOfNat(y.n), BOfNat(x.d)), x.k - y.k)

RLt(x, y) ==
    IF x.n > 0 /\ y.n > 0 THEN PosLt(x, y)
    ELSE IF x.n < 0 /\ y.n < 0 THEN PosLt(RNeg(y), RNeg(x))
    ELSE (x.n < 0 /\ y.n >= 0) \/ (x.n = 0 /\ y.n > 0)

REq(x, y) == ~RLt(x, y) /\ ~RLt(y, x)
RLe(x, y) == ~RLt(y, x)

initial_balance == RInt(InitialBalance)
transaction_cost == RFrac(TcNum, TcDen)

VARIABLES
    data,                 \* CLOSE column: the price of row i is data[i + 1]
    current_step,         \* the cursor
    balance,              \* cash
    btc_held,             \* asset holdings
    total_value,
    last_action_step,
    last_trading_action,  \* None, SELL or BUY
    trades,               \* the trade log
    portfolio_values,     \* the value history
    actions_taken,
    last_call,            \* the last call made: [op, arg]
    ret                   \* what that call returned

envVars == <<data, current_step, balance, btc_held, total_value, last_action_step,
             last_trading_action, trades, portfolio_values, actions_taken,
             last_call, ret>>

(***************************************************************************)
(* TradingEnvironment helpers                                              *)
(***************************************************************************)
\* _can_sell: holds BTC and the last trading action was not a sell
MutCanSellNoHoldings(btc, lta) == lta # SELL
CanSell(btc, lta) == RIsPos(btc) /\ lta # SELL

\* _can_buy: has cash and the last trading action was not a buy
CanBuy(bal, lta) == RIsPos(bal) /\ lta # BUY

\* _get_current_price: data.iloc[step]['CLOSE']; an IndexError outside the series
PriceInRange(step) == step \in 0..(Len(data) - 1)
PriceAt(step) == RInt(data[step + 1])

MutFlagAlwaysSet(b) == 1
Flag(b) == IF b THEN 1 ELSE 0

\* _get_state: the lookback window [start_idx, end_idx) of rows (the scaler's
\* z-score of the rows is a numerical transform of the window and is not
\* modelled), the 4 portfolio floats and the 5 constraint flags
GetState(step, bal, btc, tv, las, lta) ==
    [ window |-> <<step - LookbackWindow, step>>,
      portfolio_info |->
        << RDiv(bal, initial_balance),
           RDiv(RMul(btc, PriceAt(step)), initial_balance),
           RDiv(tv, initial_balance),
           RDiv(RInt(step - las), RInt(MaxPositionHold)) >>,
      action_constraints |->
        << Flag(CanSell(btc, lta)), 1, Flag(CanBuy(bal, lta)),
           Flag(lta # SELL), Flag(lta # BUY) >> ]

NoState == [window |-> << >>, portfolio_info |-> << >>, action_constraints |-> << >>]

\* a call that ended in an exception returns nothing
Raised(op) ==
    [op |-> op, raised |-> TRUE, state |-> NoState, reward |-> RZero,
     vol_applied |-> FALSE, done |-> FALSE, info |-> [exception |-> "IndexError"]]

Returned(op, state, reward, vol, done, info) ==
    [op |-> op, raised |-> FALSE, state |-> state, reward |-> reward,
     vol_applied |-> vol, done |-> done, info |-> info]

\* a return whose last act is _get_state(): it raises when the cursor is
\* outside the series
ReturnState(op, step, bal, btc, tv, las, lta, reward, vol, done, info) ==
    IF PriceInRange(step)
    THEN Returned(op, GetState(step, bal, btc, tv, las, lta), reward, vol, done, info)
    ELSE Raised(op)

(***************************************************************************)
(* reset(start_step)                                                       *)
(***************************************************************************)
MutResetCursorNoClamp(start) == IF start = None THEN LookbackWindow ELSE start
ResetCursor(start) ==
    IF start = None THEN LookbackWindow ELSE MaxOf(start, LookbackWindow)

ResetTo(start, step) ==
    /\ last_call' = [op |-> "reset", arg |-> start]
    /\ current_step' = step
    /\ balance' = initial_balance
    /\ btc_held' = RZero
    /\ total_value' = initial_balance
    /\ last_action_step' = step
    /\ last_trading_action' = None
    /\ trades' = << >>
    /\ portfolio_values' = << >>
    /\ actions_taken' = << >>
    /\ ret' = ReturnState("reset", step, initial_balance, RZero, initial_balance,
                           step, None, RZero, FALSE, FALSE, [reset |-> TRUE])
    /\ UNCHANGED data

Reset(start) == ResetTo(start, ResetCursor(start))


(***************************************************************************)
(* step(action)                                                            *)
(***************************************************************************)
\* the constraint check: an invalid sell or buy is blocked
Blocked(action, bal, btc, lta) ==
    \/ action = SELL /\ ~CanSell(btc, lta)
    \/ action = BUY /\ ~CanBuy(bal, lta)

\* the fixed penalty accrued for a blocked request
MutRewardPenaltyNone(blocked) == RZero
RewardPenalty(blocked) == IF blocked THEN RInt(-5) ELSE RZero

\* a blocked request is forced to hold
MutEffectiveNoOverride(action, blocked) == action
Effective(action, blocked) == IF blocked THEN HOLD ELSE action

\* "Execute action", sell branch: all holdings become cash at price p less
\* the proportional fee, a trade is logged
MutSellTradeAsBuy(p, step, btc, btc_value, transaction_fee, new_balance) ==
    [ step |-> step, action |-> "buy", price |-> p, btc_amount |-> btc,
      value |-> btc_value, fee |-> transaction_fee, balance_after |-> new_balance,
      portfolio_value |-> RAdd(new_balance, RZero) ]
SellTrade(p, step, btc, btc_value, transaction_fee, new_balance) ==
    [ step |-> step, action |-> "sell", price |-> p, btc_amount |-> btc,
      value |-> btc_value, fee |-> transaction_fee, balance_after |-> new_balance,
      portfolio_value |-> RAdd(new_balance, RZero) ]

MutSellAccountMarksBuy(p, step, btc, trs, btc_value, transaction_fee, new_balance) ==
    [ balance |-> new_balance,
      btc_held |-> RZero,
      last_action_step |-> step,
      last_trading_action |-> BUY,
      trades |-> Append(trs, SellTrade(p, step, btc, btc_value, transaction_fee,
                                       new_balance)) ]
SellAccount(p, step, btc, trs, btc_value, transaction_fee, new_balance) ==
    [ balance |-> new_balance,
      btc_held |-> RZero,
      last_action_step |-> step,
      last_trading_action |-> SELL,
      trades |-> Append(trs, SellTrade(p, step, btc, btc_value, transaction_fee,
                                       new_balance)) ]
SellFee(p, step, bal, btc, trs, btc_value, transaction_fee) ==
    SellAccount(p, step, btc, trs, btc_value, transaction_fee,
                RAdd(bal, RSub(btc_value, transaction_fee)))
MutSellValueNoFee(p, step, bal, btc, trs, btc_value) ==
    SellFee(p, step, bal, btc, trs, btc_value, RZero)
SellValue(p, step, bal, btc, trs, btc_value) ==
    SellFee(p, step, bal, btc, trs, btc_value, RMul(btc_value, transaction_cost))
ExecuteSell(p, step, bal, btc, trs) == SellValue(p, step, bal, btc, trs, RMul(btc, p))

\* "Execute action", buy branch: all cash less the fee becomes holdings
BuyTrade(p, step, transaction_fee, investable_amount, btc_amount) ==
    [ step |-> step, action |-> "buy", price |-> p, btc_amount |-> btc_amount,
      value |-> investable_amount, fee |-> transaction_fee, btc_after |-> btc_amount,
      portfolio_value |-> RMul(btc_amount, p) ]

MutBuyAccountKeepsCash(p, step, trs, transaction_fee, investable_amount, btc_amount) ==
    [ balance |-> investable_amount,
      btc_held |-> btc_amount,
      last_action_step |-> step,
      last_trading_action |-> BUY,
      trades |-> Append(trs, BuyTrade(p, step, transaction_fee, investable_amount,
                                      btc_amount)) ]
BuyAccount(p, step, trs, transaction_fee, investable_amount, btc_amount) ==
    [ balance |-> RZero,
      btc_held |-> btc_amount,
      last_action_step |-> step,
      last_trading_action |-> BUY,
      trades |-> Append(trs, BuyTrade(p, step, transaction_fee, investable_amount,
                                      btc_amount)) ]
BuyInvest(p, step, trs, transaction_fee, investable_amount) ==
    BuyAccount(p, step, trs, transaction_fee, investable_amount,
               RDiv(investable_amount, p))
BuyFee(p, step, bal, trs, transaction_fee) ==
    BuyInvest(p, step, trs, transaction_fee, RSub(bal, transaction_fee))
ExecuteBuy(p, step, bal, trs) == BuyFee(p, step, bal, trs, RMul(bal, transaction_cost))

\* "Execute action": the account after the (possibly overridden) action at
\* price p, as [balance, btc_held, last_action_step, last_trading_action, trades]
ExecuteAction(act, p, step, bal, btc, las, lta, trs) ==
    IF act = SELL /\ RIsPos(btc) THEN ExecuteSell(p, step, bal, btc, trs)
    ELSE IF act = BUY /\ RIsPos(bal) THEN ExecuteBuy(p, step, bal, trs)
    ELSE [ balance |-> bal, btc_held |-> btc, last_action_step |-> las,
           last_trading_action |-> lta, trades |-> trs ]

\* "Update portfolio value": priced at current_price, the price read at the
\* cursor before it moves
MutPortfolioValueUnpriced(bal, btc, p) == RAdd(bal, btc)
PortfolioValue(bal, btc, p) == RAdd(bal, RMul(btc, p))

\* _calculate_reward without its volatility term (a standard deviation, not a
\* rational; VolApplied says when the term is applied): the base return, the
\* idle penalty, the activity bonus, the large-loss penalty, the large-gain bonus
MutRewardTermsBonusAlways(portfolio_return, action_blocked, days_since_action) ==
    RAdd(RAdd(RAdd(RAdd(
        RMul(portfolio_return, RInt(100)),
        IF RLt(RInt(30), days_since_action)
        THEN RNeg(RMul(RFrac(1, 10), RSub(days_since_action, RInt(30)))) ELSE RZero),
        RFrac(1, 100)),
        IF RLt(portfolio_return, RNeg(RFrac(5, 100)))
        THEN RNeg(RMul(RAbs(portfolio_return), RInt(10))) ELSE RZero),
        IF RLt(RFrac(5, 100), portfolio_return)
        THEN RMul(portfolio_return, RInt(5)) ELSE RZero)
RewardTerms(portfolio_return, action_blocked, days_since_action) ==
    RAdd(RAdd(RAdd(RAdd(
        RMul(portfolio_return, RInt(100)),
        IF RLt(RInt(30), days_since_action)
        THEN RNeg(RMul(RFrac(1, 10), RSub(days_since_action, RInt(30)))) ELSE RZero),
        IF ~action_blocked THEN RFrac(1, 100) ELSE RZero),
        IF RLt(portfolio_return, RNeg(RFrac(5, 100)))
        THEN RNeg(RMul(RAbs(portfolio_return), RInt(10))) ELSE RZero),
        IF RLt(RFrac(5, 100), portfolio_return)
        THEN RMul(portfolio_return, RInt(5)) ELSE RZero)

CalculateReward(prev_total_value, action_blocked, tv, step, las) ==
    RewardTerms(RDiv(RSub(tv, prev_total_value), prev_total_value), action_blocked,
                RDiv(RInt(step - las), RInt(24)))

VolApplied(pvs) == Len(pvs) > 10

\* "Check if done": portfolio too low or end of data
MutIsDoneNoFloor(tv, step) == step >= Len(data) - 1
IsDone(tv, step) ==
    RLt(tv, RMul(initial_balance, RFrac(1, 10))) \/ step >= Len(data) - 1

\* the guard at the head of step(): the cursor is at (or past) the last row
MutAtEndOffByOne(step) == step >= Len(data)
AtEnd(step) == step >= Len(data) - 1

\* step() on an exhausted series: nothing is written, _get_state() is returned
MutStepAtEndNotDone(requested) ==
    /\ last_call' = [op |-> "step", arg |-> requested]
    /\ ret' = ReturnState("step", current_step, balance, btc_held, total_value,
                           last_action_step, last_trading_action,
                           RZero, FALSE, FALSE, [error |-> "End of data"])
    /\ UNCHANGED <<data, current_step, balance, btc_held, total_value,
                   last_action_step, last_trading_action, trades,
                   portfolio_values, actions_taken>>
StepAtEnd(requested) ==
    /\ last_call' = [op |-> "step", arg |-> requested]
    /\ ret' = ReturnState("step", current_step, balance, btc_held, total_value,
                           last_action_step, last_trading_action,
                           RZero, FALSE, TRUE, [error |-> "End of data"])
    /\ UNCHANGED <<data, current_step, balance, btc_held, total_value,
                   last_action_step, last_trading_action, trades,
                   portfolio_values, actions_taken>>

\* the tail of step(): the value is recomputed and logged, the cursor moves,
\* then reward, done, info and the new state are computed
StepValued(p, action_blocked, action, acct, tv) ==
    /\ balance' = acct.balance
    /\ btc_held' = acct.btc_held
    /\ last_action_step' = acct.last_action_step
    /\ last_trading_action' = acct.last_trading_action
    /\ trades' = acct.trades
    /\ total_value' = tv
    /\ portfolio_values' = Append(portfolio_values, tv)
    /\ actions_taken' = Append(actions_taken, action)
    /\ current_step' = current_step + 1
    /\ ret' = ReturnState("step",
                       current_step + 1, acct.balance, acct.btc_held, tv,
                       acct.last_action_step, acct.last_trading_action,
                       RAdd(CalculateReward(total_value, action_blocked, tv,
                                            current_step + 1, acct.last_action_step),
                            RewardPenalty(action_blocked)),
                       VolApplied(Append(portfolio_values, tv)),
                       IsDone(tv, current_step + 1),
                       [ portfolio_value |-> tv,
                         balance |-> acct.balance,
                         btc_held |-> acct.btc_held,
                         current_price |-> p,
                         action_blocked |-> action_blocked,
                         last_trading_action |-> acct.last_trading_action,
                         can_buy |-> CanBuy(acct.balance, acct.last_trading_action),
                         can_sell |-> CanSell(acct.btc_held, acct.last_trading_action) ])
    /\ UNCHANGED data

StepExecuted(p, action_blocked, action, acct) ==
    StepValued(p, action_blocked, action, acct,
               PortfolioValue(acct.balance, acct.btc_held, p))

StepChecked(p, action_blocked, action) ==
    StepExecuted(p, action_blocked, action,
                 ExecuteAction(action, p, current_step, balance, btc_held,
                               last_action_step, last_trading_action, trades))

StepPriced(requested, p, action_blocked) ==
    StepChecked(p, action_blocked, Effective(requested, action_blocked))

StepTrade(requested) ==
    /\ last_call' = [op |-> "step", arg |-> requested]
    /\ StepPriced(requested, PriceAt(current_step),
                  Blocked(requested, balance, btc_held, last_trading_action))

\* the driver calls reset() before it steps an environment
Step(requested) ==
    /\ ret.op # "init"
    /\ IF AtEnd(current_step) THEN StepAtEnd(requested) ELSE StepTrade(requested)

(***************************************************************************)
(* get_portfolio_performance() and the metrics it calls.  The annualized   *)
(* volatility and the Sharpe ratio are standard deviations, not rationals, *)
(* and are left out of the returned map.                                   *)
(***************************************************************************)
VARIABLE perf   \* the caller's copy of what get_portfolio_performance() returned

\* the net profit of one buy -> sell cycle
NetProfit(buy, sell) ==
    RSub(RMul(RSub(sell.price, buy.price), buy.btc_amount), RAdd(buy.fee, sell.fee))

\* the inner loop of _calculate_win_rate: the index (from 0) of the first sell
\* at or after j, Len(trs) when there is none
RECURSIVE NextSell(_, _)
NextSell(trs, j) ==
    IF j >= Len(trs) THEN Len(trs)
    ELSE IF trs[j + 1].action = "sell" THEN j
    ELSE NextSell(trs, j + 1)

\* the outer loop of _calculate_win_rate from index i (from 0):
\* <<winning_trades, total_complete_trades>>
RECURSIVE WinRateLoop(_, _, _, _)
WinRatePair(trs, i, j, wins, total) ==
    IF j < Len(trs)
    THEN WinRateLoop(trs, j + 1,
                     IF RIsPos(NetProfit(trs[i + 1], trs[j + 1])) THEN wins + 1 ELSE wins,
                     total + 1)
    ELSE <<wins, total>>
WinRateLoop(trs, i, wins, total) ==
    IF i >= Len(trs) - 1 THEN <<wins, total>>
    ELSE IF trs[i + 1].action = "buy"
         THEN WinRatePair(trs, i, NextSell(trs, i + 1), wins, total)
         ELSE WinRateLoop(trs, i + 1, wins, total)

\* the end of _calculate_win_rate: the open-position branch when no cycle was
\* counted, the ratio otherwise
WinRateOf(trs, btc, step, counted) ==
    IF counted[2] = 0 /\ Len(trs) > 0
    THEN IF trs[Len(trs)].action = "buy" /\ RIsPos(btc)
         THEN IF RIsPos(RMul(RSub(PriceAt(step), trs[Len(trs)].price), btc))
              THEN RInt(1) ELSE RZero
         ELSE RZero
    ELSE IF counted[2] > 0 THEN RFrac(counted[1], counted[2]) ELSE RZero

\* _calculate_win_rate
CalculateWinRate(trs, btc, step) ==
    IF Len(trs) < 2 THEN RZero
    ELSE WinRateOf(trs, btc, step, WinRateLoop(trs, 0, 0, 0))

\* np.sum(returns[returns > 0]) and np.sum(returns[returns < 0]) over
\* returns = np.diff(portfolio_values), from the i-th difference on
RECURSIVE GrossProfit(_, _)
GrossProfit(pvs, i) ==
    IF i >= Len(pvs) THEN RZero
    ELSE RAdd(IF RLt(pvs[i], pvs[i + 1]) THEN RSub(pvs[i + 1], pvs[i]) ELSE RZero,
              GrossProfit(pvs, i + 1))
RECURSIVE GrossLossSum(_, _)
GrossLossSum(pvs, i) ==
    IF i >= Len(pvs) THEN RZero
    ELSE RAdd(IF RLt(pvs[i + 1], pvs[i]) THEN RSub(pvs[i + 1], pvs[i]) ELSE RZero,
              GrossLossSum(pvs, i + 1))

\* float('inf')
Infinity == [inf |-> TRUE, value |-> RZero]
Finite(x) == [inf |-> FALSE, value |-> x]

\* _calculate_profit_factor
ProfitRatio(gross_profit, gross_loss) ==
    IF RIsPos(gross_loss) THEN Finite(RDiv(gross_profit, gross_loss)) ELSE Infinity
CalculateProfitFactor(pvs) ==
    IF Len(pvs) < 2 THEN Finite(RZero)
    ELSE ProfitRatio(GrossProfit(pvs, 1), RAbs(GrossLossSum(pvs, 1)))

\* np.max and np.min of the value history
RECURSIVE MaxValue(_, _)
MaxValue(pvs, i) ==
    IF i >= Len(pvs) THEN pvs[i]
    ELSE IF RLt(pvs[i], MaxValue(pvs, i + 1)) THEN MaxValue(pvs, i + 1) ELSE pvs[i]
RECURSIVE MinValue(_, _)
MinValue(pvs, i) ==
    IF i >= Len(pvs) THEN pvs[i]
    ELSE IF RLt(MinValue(pvs, i + 1), pvs[i]) THEN MinValue(pvs, i + 1) ELSE pvs[i]

\* _calculate_max_drawdown: the least (value - running peak) / running peak
RECURSIVE DrawdownFrom(_, _, _, _)
DrawdownAt(pvs, i, peak, worst) ==
    DrawdownFrom(pvs, i + 1, peak,
                 IF RLt(RDiv(RSub(pvs[i], peak), peak), worst)
                 THEN RDiv(RSub(pvs[i], peak), peak) ELSE worst)
DrawdownFrom(pvs, i, peak, worst) ==
    IF i > Len(pvs) THEN worst
    ELSE DrawdownAt(pvs, i, IF RLt(peak, pvs[i]) THEN pvs[i] ELSE peak, worst)
CalculateMaxDrawdown(pvs) ==
    IF Len(pvs) < 2 THEN RZero ELSE DrawdownFrom(pvs, 1, pvs[1], RZero)

\* the map get_portfolio_performance() returns, without total_return and
\* total_return_pct (read from total_value and initial_balance alone)
Metrics ==
    [ call |-> "get_portfolio_performance", empty |-> FALSE,
      final_value |-> total_value,
      max_value |-> MaxValue(portfolio_values, 1),
      min_value |-> MinValue(portfolio_values, 1),
      num_trades |-> Len(trades),
      win_rate |-> CalculateWinRate(trades, btc_held, current_step),
      max_drawdown |-> CalculateMaxDrawdown(portfolio_values),
      profit_factor |-> CalculateProfitFactor(portfolio_values) ]

\* get_portfolio_performance(): {} on a history of fewer than 2 values; it
\* writes nothing
GetPortfolioPerformance ==
    /\ ret.op # "init"
    /\ perf' = IF Len(portfolio_values) < 2
               THEN [call |-> "get_portfolio_performance", empty |-> TRUE]
               ELSE Metrics
    /\ UNCHANGED envVars

(***************************************************************************)
(* ReplayMemory and DQNAgent.learn (src/DeepTrader/dqn_model.py)           *)
(*                                                                         *)
(* An estimator's parameters are an opaque value: q_network and            *)
(* target_network hold the identity of a parameter vector, and an          *)
(* optimizer step yields a vector not seen before.  The constructor reads  *)
(* its hyperparameters from MODEL_CONFIG; they are drawn from small sets.  *)
(***************************************************************************)
MaxCapacity == 2
MaxBatch == 2
MaxFreq == 2
MaxPushes == 3
MaxLearn == 3

\* epsilon_start, and the floors and decay factors tried
epsilon_start == RInt(1)
EpsilonEnds == {RFrac(1, 100), RFrac(1, 3)}
EpsilonDecays == {RFrac(1, 2), RFrac(9, 10)}

\* what the driver may store besides the states: (action, reward, done)
PushInputs ==
    { [action |-> SELL, reward |-> RInt(0), done |-> FALSE],
      [action |-> HOLD, reward |-> RInt(1), done |-> FALSE],
      [action |-> BUY, reward |-> RInt(0), done |-> TRUE],
      [action |-> HOLD, reward |-> RInt(1), done |-> TRUE] }

VARIABLES
    memory,             \* ReplayMemory.memory: the deque, oldest first
    capacity,           \* the deque's maxlen
    batch_size,
    target_update_freq,
    epsilon,
    epsilon_end,
    epsilon_decay,
    q_network,          \* the online estimator's parameters
    target_network,     \* the target estimator's parameters
    steps_done,         \* the learning-step counter
    n_pushed,           \* how many transitions were pushed so far
    aret,               \* what the agent's last call returned
    optimizer,          \* the optimizer's state
    n_updates,          \* how many optimizer steps this agent has made
    checkpoint,         \* the file at the model path: << >> or <<artifact>>
    since_sync,         \* history: learning steps made since the target was written
    request,            \* the inputs of the estimator call under study
    driver              \* the driver's loop: [pc, mode, steps, max_steps]

agentVars == <<memory, capacity, batch_size, target_update_freq, epsilon, epsilon_end,
               epsilon_decay, q_network, target_network, steps_done, n_pushed, aret,
               optimizer, n_updates, checkpoint, since_sync, request, perf, driver>>

\* what store_experience, a skipped learn() and the read-only calls leave alone
\* (and the caller's requests and metrics)
persistVars == <<optimizer, n_updates, checkpoint, since_sync, request, perf>>

vars == <<envVars, agentVars>>

\* deque(maxlen=capacity).append: the oldest entry leaves a full deque
MutDequeAppendEvictNewest(mem, cap, e) ==
    IF cap = 0 THEN << >>
    ELSE IF Len(mem) >= cap THEN Append(SubSeq(mem, 1, Len(mem) - 1), e)
    ELSE Append(mem, e)
DequeAppend(mem, cap, e) ==
    IF cap = 0 THEN << >>
    ELSE IF Len(mem) >= cap THEN Append(Tail(mem), e)
    ELSE Append(mem, e)

\* the Experience tuple; a state is identified by the push that stored it
Experience(n, in) ==
    [state |-> n, action |-> in.action, reward |-> in.reward,
     next_state |-> n + 1, done |-> in.done]

\* ReplayMemory.push / DQNAgent.store_experience
Push(in) ==
    /\ n_pushed < MaxPushes
    /\ memory' = DequeAppend(memory, capacity, Experience(n_pushed + 1, in))
    /\ n_pushed' = n_pushed + 1
    /\ aret' = [op |-> "push", value |-> "None", batch |-> {}]
    /\ UNCHANGED <<capacity, batch_size, target_update_freq, epsilon, epsilon_end,
                   epsilon_decay, q_network, target_network, steps_done>>
    /\ UNCHANGED persistVars

\* ReplayMemory.sample: random.sample(memory, batch_size), distinct entries
Samples(mem, k) ==
    { { mem[i] : i \in idx } : idx \in { I \in SUBSET (1..Len(mem)) : Cardinality(I) = k } }

\* the guard of learn(): too few transitions stored
MutTooFewOffByOne(mem, bs) == Len(mem) + 1 < bs
TooFew(mem, bs) == Len(mem) < bs

\* the decay of epsilon at the end of learn()
DecayEpsilon(eps, floor, decay) == IF RLt(floor, eps) THEN RMul(eps, decay) ELSE eps

\* hard sync every target_update_freq learning steps
MutSyncDueLate(steps, freq) == steps % (freq + 1) = 0
MutSyncDueAlways(steps, freq) == TRUE
SyncDue(steps, freq) == steps % freq = 0

\* learn() with too few transitions: returns None
LearnSkip ==
    /\ aret' = [op |-> "learn", value |-> "None", batch |-> {}]
    /\ UNCHANGED <<memory, capacity, batch_size, target_update_freq, epsilon, epsilon_end,
                   epsilon_decay, q_network, target_network, steps_done, n_pushed>>
    /\ UNCHANGED persistVars

\* learn() on a sampled batch: one optimizer step on the online estimator,
\* the step counter, the periodic hard sync, the decay of epsilon.  The
\* parameters an optimizer step produces are named by the serial number of
\* that step, so parameters restored from a file and trained again never
\* share a name with parameters trained before.
LearnUpdate ==
    /\ n_updates < MaxLearn
    /\ \E batch \in Samples(memory, batch_size) :
          aret' = [op |-> "learn", value |-> "loss", batch |-> batch]
    /\ q_network' = n_updates + 1
    /\ optimizer' = n_updates + 1
    /\ n_updates' = n_updates + 1
    /\ steps_done' = steps_done + 1
    /\ target_network' = IF SyncDue(steps_done + 1, target_update_freq)
                         THEN n_updates + 1 ELSE target_network
    /\ since_sync' = IF SyncDue(steps_done + 1, target_update_freq)
                     THEN 0 ELSE since_sync + 1
    /\ epsilon' = DecayEpsilon(epsilon, epsilon_end, epsilon_decay)
    /\ UNCHANGED <<memory, capacity, batch_size, target_update_freq, epsilon_end,
                   epsilon_decay, n_pushed, checkpoint, request, perf>>

\* learn() past its guard with a batch larger than the store: random.sample
\* raises ValueError before anything is written
LearnRaise ==
    /\ aret' = [op |-> "learn", value |-> "ValueError", batch |-> {}]
    /\ UNCHANGED <<memory, capacity, batch_size, target_update_freq, epsilon, epsilon_end,
                   epsilon_decay, q_network, target_network, steps_done, n_pushed>>
    /\ UNCHANGED persistVars

Learn ==
    IF TooFew(memory, batch_size) THEN LearnSkip
    ELSE IF batch_size > Len(memory) THEN LearnRaise
    ELSE LearnUpdate

\* save_model: the four keys written to the file
SaveModel ==
    /\ checkpoint' = << [ model_state_dict |-> q_network,
                          optimizer_state_dict |-> optimizer,
                          epsilon |-> epsilon,
                          steps_done |-> steps_done ] >>
    /\ aret' = [op |-> "save_model", value |-> "None", batch |-> {}]
    /\ UNCHANGED <<memory, capacity, batch_size, target_update_freq, epsilon, epsilon_end,
                   epsilon_decay, q_network, target_network, steps_done, n_pushed,
                   optimizer, n_updates, since_sync, request, perf>>

\* the artifacts load_model may find at the path: the file save_model wrote,
\* or the same weights exported alone
WeightsOnly(artifact) == [model_state_dict |-> artifact.model_state_dict]
Artifacts(file) == { file[i] : i \in 1..Len(file) } \cup { WeightsOnly(file[i]) : i \in 1..Len(file) }

\* "Optionally load training state": a key missing from the artifact leaves
\* the field as it is
MutLoadEpsilonKeep(artifact, eps) == eps
LoadEpsilon(artifact, eps) ==
    IF "epsilon" \in DOMAIN artifact THEN artifact.epsilon ELSE eps
LoadStepsDone(artifact, steps) ==
    IF "steps_done" \in DOMAIN artifact THEN artifact.steps_done ELSE steps
LoadOptimizer(artifact, opt) ==
    IF "optimizer_state_dict" \in DOMAIN artifact THEN artifact.optimizer_state_dict ELSE opt

\* load_model from an artifact: both estimators take the stored weights
LoadFrom(artifact) ==
    /\ q_network' = artifact.model_state_dict
    /\ target_network' = artifact.model_state_dict
    /\ since_sync' = 0
    /\ optimizer' = LoadOptimizer(artifact, optimizer)
    /\ epsilon' = LoadEpsilon(artifact, epsilon)
    /\ steps_done' = LoadStepsDone(artifact, steps_done)
    /\ aret' = [op |-> "load_model", value |-> "None", batch |-> {},
                artifact |-> artifact]
    /\ UNCHANGED <<memory, capacity, batch_size, target_update_freq, epsilon_end,
                   epsilon_decay, n_pushed, n_updates, checkpoint, request, perf>>

\* load_model with no file at the path: torch.load raises before any write
LoadRaise ==
    /\ aret' = [op |-> "load_model", value |-> "FileNotFoundError", batch |-> {}]
    /\ UNCHANGED <<memory, capacity, batch_size, target_update_freq, epsilon, epsilon_end,
                   epsilon_decay, q_network, target_network, steps_done, n_pushed>>
    /\ UNCHANGED persistVars

LoadModel ==
    IF checkpoint = << >> THEN LoadRaise
    ELSE \E artifact \in Artifacts(checkpoint) : LoadFrom(artifact)

(***************************************************************************)
(* Initial states                                                          *)
(***************************************************************************)
StartSteps == {None} \cup (0..DataLen)

\* rows before the first cursor position only fill the lookback window
WarmupPrice == CHOOSE p \in Prices : \A q \in Prices : p <= q
Series ==
    { s \in [1..DataLen -> Prices] : \A i \in 1..LookbackWindow : s[i] = WarmupPrice }

\* TradingEnvironment.__init__ over the series s
EnvInitWith(s) ==
    /\ data = s
    /\ current_step = 0
    /\ balance = initial_balance
    /\ btc_held = RZero
    /\ total_value = initial_balance
    /\ last_action_step = 0
    /\ last_trading_action = None
    /\ trades = << >>
    /\ portfolio_values = << >>
    /\ actions_taken = << >>
    /\ last_call = [op |-> "init", arg |-> None]
    /\ ret = [op |-> "init", raised |-> FALSE, state |-> NoState, reward |-> RZero,
              vol_applied |-> FALSE, done |-> FALSE, info |-> [init |-> TRUE]]

\* DQNAgent.__init__ with the given hyperparameters
AgentInitWith(cap, bs, freq, floor, decay) ==
    /\ memory = << >>
    /\ capacity = cap
    /\ batch_size = bs
    /\ target_update_freq = freq
    /\ epsilon = epsilon_start
    /\ epsilon_end = floor
    /\ epsilon_decay = decay
    /\ q_network = 0
    /\ target_network = 0
    /\ steps_done = 0
    /\ n_pushed = 0
    /\ aret = [op |-> "init", value |-> "None", batch |-> {}]
    /\ optimizer = 0
    /\ n_updates = 0
    /\ checkpoint = << >>
    /\ since_sync = 0

(***************************************************************************)
(* The estimator's output and the calls that read it.  The layers below    *)
(* the two heads are not modelled: the heads' outputs for a state, value   *)
(* and advantage, are inputs.                                              *)
(***************************************************************************)
GammaNum == 99
GammaDen == 100
gamma == RFrac(GammaNum, GammaDen)
ActionSize == Cardinality(Actions)
VeryLowValue == -1000

\* advantage.mean(dim=1)
MutMeanAsMax(advantage) ==
    CHOOSE m \in { advantage[a] : a \in Actions } :
        \A b \in Actions : RLe(advantage[b], m)
Mean(advantage) ==
    RDiv(RAdd(RAdd(advantage[SELL], advantage[HOLD]), advantage[BUY]), RInt(ActionSize))

\* DQN.forward from the heads on: value + (advantage - mean)
Forward(value, advantage) ==
    [a \in Actions |-> RAdd(value, RSub(advantage[a], Mean(advantage)))]

\* constraints[i] > 0.5 on the constraint segment of a state (flags 1..5 here)
FlagSet(constraints, i) == 2 * constraints[i] > 1

SellMarked(constraints) == FlagSet(constraints, 1) /\ FlagSet(constraints, 4)
HoldMarked(constraints) == FlagSet(constraints, 2)
BuyMarked(constraints) == FlagSet(constraints, 3) /\ FlagSet(constraints, 5)

\* _get_valid_actions: the list, in the order it is built
MutValidActionsIgnoreLast(constraints) ==
    (IF FlagSet(constraints, 1) THEN <<SELL>> ELSE << >>)
    \o (IF HoldMarked(constraints) THEN <<HOLD>> ELSE << >>)
    \o (IF FlagSet(constraints, 3) THEN <<BUY>> ELSE << >>)
GetValidActions(constraints) ==
    (IF SellMarked(constraints) THEN <<SELL>> ELSE << >>)
    \o (IF HoldMarked(constraints) THEN <<HOLD>> ELSE << >>)
    \o (IF BuyMarked(constraints) THEN <<BUY>> ELSE << >>)

\* _apply_action_mask: sell and buy are overwritten when not marked valid
ApplyActionMask(q_values, constraints) ==
    [a \in Actions |->
        IF a = SELL /\ ~SellMarked(constraints) THEN RInt(VeryLowValue)
        ELSE IF a = BUY /\ ~BuyMarked(constraints) THEN RInt(VeryLowValue)
        ELSE q_values[a]]

\* argmax(): the first index that holds the largest value
ArgMax(q_values) ==
    CHOOSE a \in Actions :
        /\ \A b \in Actions : RLe(q_values[b], q_values[a])
        /\ \A b \in Actions : b < a => RLt(q_values[b], q_values[a])

\* the branch of select_action: random.random() < self.epsilon while training
Explores(training, draw, eps) == training /\ RLt(draw, eps)

\* the actions select_action may return on the exploration branch
ExploreChoices(constraints) ==
    IF Len(GetValidActions(constraints)) > 0
    THEN { GetValidActions(constraints)[i] : i \in 1..Len(GetValidActions(constraints)) }
    ELSE {HOLD}

\* the action select_action returns on the exploitation branch
Greedy(value, advantage, constraints) ==
    ArgMax(ApplyActionMask(Forward(value, advantage), constraints))

\* select_action(state, training): constraints is the state's last segment,
\* draw the value of random.random(), value and advantage the heads' outputs
SelectAction(constraints, training, draw, value, advantage) ==
    /\ \E action \in ( IF Explores(training, draw, epsilon)
                        THEN ExploreChoices(constraints)
                        ELSE {Greedy(value, advantage, constraints)} ) :
          aret' = [ op |-> "select_action", value |-> "action", batch |-> {},
                    action |-> action,
                    explored |-> Explores(training, draw, epsilon),
                    training |-> training,
                    constraints |-> constraints ]
    /\ UNCHANGED <<memory, capacity, batch_size, target_update_freq, epsilon, epsilon_end,
                   epsilon_decay, q_network, target_network, steps_done, n_pushed>>
    /\ UNCHANGED persistVars

\* get_q_values(state)
GetQValues(value, advantage) ==
    /\ aret' = [ op |-> "get_q_values", value |-> "q_values", batch |-> {},
                 head_value |-> value, head_advantage |-> advantage,
                 q_values |-> Forward(value, advantage) ]
    /\ UNCHANGED <<memory, capacity, batch_size, target_update_freq, epsilon, epsilon_end,
                   epsilon_decay, q_network, target_network, steps_done, n_pushed>>
    /\ UNCHANGED persistVars

\* ~done_batch as a factor: 0 for a terminal transition, 1 otherwise
MutNotDoneIgnored(done) == 1
NotDone(done) == IF done THEN 0 ELSE 1

\* the learning target of one sampled transition in learn(): online_next and
\* target_next are the two estimators' outputs for its next_state
TargetQValue(reward, done, online_next, target_next) ==
    RAdd(reward,
         RMul(RMul(gamma, target_next[ArgMax(online_next)]), RInt(NotDone(done))))

\* the target computation of learn() for one transition
LearnTarget(reward, done, online_next, target_next) ==
    /\ aret' = [ op |-> "learn_target", value |-> "target", batch |-> {},
                 reward |-> reward, done |-> done,
                 online_next |-> online_next, target_next |-> target_next,
                 target |-> TargetQValue(reward, done, online_next, target_next) ]
    /\ UNCHANGED <<memory, capacity, batch_size, target_update_freq, epsilon, epsilon_end,
                   epsilon_decay, q_network, target_network, steps_done, n_pushed>>
    /\ UNCHANGED persistVars

(***************************************************************************)
(* Spec: the simulator driven by any sequence of reset() and step() calls  *)
(***************************************************************************)
NoRequest == [call |-> "none"]
NoPerf == [call |-> "none"]
Idle == [pc |-> "idle", mode |-> "none", steps |-> 0, max_steps |-> 0]

Init ==
    /\ \E s \in Series : EnvInitWith(s)
    /\ AgentInitWith(MaxCapacity, MaxBatch, MaxFreq, RFrac(1, 100), RFrac(1, 2))
    /\ request = NoRequest
    /\ perf = NoPerf
    /\ driver = Idle

DoReset == \E start \in StartSteps : Reset(start) /\ UNCHANGED agentVars
DoStep == \E a \in Actions : Step(a) /\ UNCHANGED agentVars

Next == DoReset \/ DoStep

Spec == Init /\ [][Next]_vars

(***************************************************************************)
(* AgentSpec: the agent driven by any sequence of store_experience() and   *)
(* learn() calls                                                           *)
(***************************************************************************)
AgentInit ==
    /\ EnvInitWith([i \in 1..DataLen |-> WarmupPrice])
    /\ \E cap \in 1..MaxCapacity, bs \in 1..MaxBatch, freq \in 1..MaxFreq,
          floor \in EpsilonEnds, decay \in EpsilonDecays :
          AgentInitWith(cap, bs, freq, floor, decay)
    /\ request = NoRequest
    /\ perf = NoPerf
    /\ driver = Idle

DoPush == \E in \in PushInputs : Push(in) /\ UNCHANGED <<envVars, driver>>
DoLearn == Learn /\ UNCHANGED <<envVars, driver>>

AgentNext == DoPush \/ DoLearn

AgentSpec == AgentInit /\ [][AgentNext]_vars

(***************************************************************************)
(* ScenarioSpec: Spec with one more series, the five prices of the         *)
(* hand-computed scenario after the rows that fill the lookback window     *)
(***************************************************************************)
ScenarioPrices == <<100, 110, 90, 120, 80>>
ScenarioData == [i \in 1..LookbackWindow |-> ScenarioPrices[1]] \o ScenarioPrices

ScenarioInit ==
    /\ \E s \in Series \cup {ScenarioData} : EnvInitWith(s)
    /\ AgentInitWith(MaxCapacity, MaxBatch, MaxFreq, RFrac(1, 100), RFrac(1, 2))
    /\ request = NoRequest
    /\ perf = NoPerf
    /\ driver = Idle

ScenarioSpec == ScenarioInit /\ [][Next]_vars

(***************************************************************************)
(* PolicySpec: the calls that read the estimator, on an agent that also    *)
(* stores and learns (so that epsilon decays)                              *)
(***************************************************************************)
ConstraintSegments == [1..5 -> {0, 1}]
HeadValues == {RInt(VeryLowValue - 1), RInt(VeryLowValue), RInt(0)}
HeadAdvantages == [Actions -> {RInt(0), RInt(3)}]
Draws == {RZero, RFrac(1, 2)}
Rewards == {RInt(-5), RInt(1)}
NextValues == {RInt(-2), RInt(0)}
\* the advantages that favour at most one action
PeakAdvantages ==
    { adv \in HeadAdvantages : Cardinality({ a \in Actions : adv[a] # RInt(0) }) <= 1 }

SelectRequests ==
    [ call : {"select_action"}, constraints : ConstraintSegments, training : BOOLEAN,
      draw : Draws, value : HeadValues, advantage : PeakAdvantages ]
QueryRequests ==
    [ call : {"get_q_values"}, value : HeadValues, advantage : HeadAdvantages ]
TargetRequests ==
    [ call : {"learn_target"}, reward : Rewards, done : BOOLEAN,
      online_value : {RInt(0)}, online_advantage : HeadAdvantages,
      target_value : NextValues, target_advantage : HeadAdvantages ]

PolicyInit ==
    /\ EnvInitWith([i \in 1..DataLen |-> WarmupPrice])
    /\ AgentInitWith(1, 1, 1, RFrac(1, 100), RFrac(1, 2))
    /\ request \in SelectRequests \cup QueryRequests \cup TargetRequests
    /\ perf = NoPerf
    /\ driver = Idle

DoSelectAction ==
    /\ request.call = "select_action"
    /\ SelectAction(request.constraints, request.training, request.draw,
                    request.value, request.advantage)
    /\ UNCHANGED <<envVars, driver>>
DoGetQValues ==
    /\ request.call = "get_q_values"
    /\ GetQValues(request.value, request.advantage)
    /\ UNCHANGED <<envVars, driver>>
DoLearnTarget ==
    /\ request.call = "learn_target"
    /\ LearnTarget(request.reward, request.done,
                   Forward(request.online_value, request.online_advantage),
                   Forward(request.target_value, request.target_advantage))
    /\ UNCHANGED <<envVars, driver>>
DoPushOne == Push(CHOOSE in \in PushInputs : in.action = HOLD /\ ~in.done) /\ UNCHANGED <<envVars, driver>>

PolicyNext == DoSelectAction \/ DoGetQValues \/ DoLearnTarget \/ DoPushOne \/ DoLearn

PolicySpec == PolicyInit /\ [][PolicyNext]_vars

(***************************************************************************)
(* TrainSpec: an agent that stores, learns, saves and loads, and is asked  *)
(* for actions and Q-values in between                                     *)
(***************************************************************************)
TrainInit ==
    /\ EnvInitWith([i \in 1..DataLen |-> WarmupPrice])
    /\ \E freq \in 1..MaxFreq : AgentInitWith(1, 1, freq, RFrac(1, 100), RFrac(1, 2))
    /\ request = NoRequest
    /\ perf = NoPerf
    /\ driver = Idle

DoSaveModel == SaveModel /\ UNCHANGED <<envVars, driver>>
DoLoadModel == LoadModel /\ UNCHANGED <<envVars, driver>>
DoAsk ==
    /\ \E training \in BOOLEAN :
          SelectAction([i \in 1..5 |-> 1], training, RFrac(1, 2), RInt(0),
                       [a \in Actions |-> RInt(0)])
    /\ UNCHANGED <<envVars, driver>>
DoQuery == GetQValues(RInt(0), [a \in Actions |-> RInt(0)]) /\ UNCHANGED <<envVars, driver>>

TrainNext == DoPushOne \/ DoLearn \/ DoSaveModel \/ DoLoadModel \/ DoAsk \/ DoQuery

TrainSpec == TrainInit /\ [][TrainNext]_vars

(***************************************************************************)
(* ReportSpec: the simulator driven by resets and steps, and asked for its *)
(* performance metrics in between; the caller drops the metrics it holds   *)
(* when it makes the next reset() or step()                                *)
(***************************************************************************)
agentState == <<memory, capacity, batch_size, target_update_freq, epsilon, epsilon_end,
                epsilon_decay, q_network, target_network, steps_done, n_pushed, aret,
                optimizer, n_updates, checkpoint, since_sync, request, driver>>

DoEpisodeReset ==
    \E start \in StartSteps : Reset(start) /\ perf' = NoPerf /\ UNCHANGED agentState
DoEpisodeStep ==
    \E a \in Actions : Step(a) /\ perf' = NoPerf /\ UNCHANGED agentState
DoPerformance == GetPortfolioPerformance /\ UNCHANGED agentState

ReportNext == DoEpisodeReset \/ DoEpisodeStep \/ DoPerformance

ReportSpec == Init /\ [][ReportNext]_vars

(***************************************************************************)
(* DriverSpec: the loops of train_episode and evaluate_agent               *)
(* (src/DeepTrader/main.py): the action of each step is the one            *)
(* select_action returns for the state the simulator returned last         *)
(***************************************************************************)
EpisodeLength == 2

agentKept == <<memory, capacity, batch_size, target_update_freq, epsilon, epsilon_end,
               epsilon_decay, q_network, target_network, steps_done, n_pushed, aret,
               optimizer, n_updates, checkpoint, since_sync, request, perf>>

\* the heads' outputs the estimator may give for a state
DriverValues == {RInt(0), RInt(VeryLowValue - 1)}

\* train_episode: the start of the segment, np.random.randint(min_start, max_start)
TrainStarts ==
    IF Len(data) - EpisodeLength - LookbackWindow <= LookbackWindow
    THEN {LookbackWindow}
    ELSE LookbackWindow..(Len(data) - EpisodeLength - LookbackWindow - 1)

\* the loop test at the head of an iteration
LoopPc(mode, steps, max_steps, step, done) ==
    IF done THEN "ended"
    ELSE IF steps >= max_steps THEN "ended"
    ELSE IF mode = "eval" /\ step >= Len(data) - 1 THEN "ended"
    ELSE "select"

Running(mode, max_steps, step) ==
    [ pc |-> LoopPc(mode, 0, max_steps, step, FALSE), mode |-> mode,
      steps |-> 0, max_steps |-> max_steps ]

\* train_episode up to its loop: reset at the segment start, max_steps
TrainEpisode ==
    /\ driver.pc \in {"idle", "ended"}
    /\ \E start \in TrainStarts :
          /\ Reset(start)
          /\ driver' = Running("train",
                               MinOf(EpisodeLength, Len(data) - ResetCursor(start) - 1),
                               ResetCursor(start))
    /\ UNCHANGED agentKept

\* evaluate_agent up to its loop: the whole series
EvaluateAgent ==
    /\ driver.pc \in {"idle", "ended"}
    /\ Reset(LookbackWindow)
    /\ driver' = Running("eval", Len(data) - LookbackWindow - 1,
                         ResetCursor(LookbackWindow))
    /\ UNCHANGED agentKept

\* action = agent.select_action(state, training=...)
DriverSelect ==
    /\ driver.pc = "select"
    /\ \E draw \in Draws, value \in DriverValues, advantage \in PeakAdvantages :
          SelectAction(ret.state.action_constraints, driver.mode = "train", draw,
                       value, advantage)
    /\ driver' = [driver EXCEPT !.pc = "step"]
    /\ UNCHANGED envVars

\* next_state, reward, done, info = env.step(action); the evaluation loop
\* then counts the step and tests done
DriverStep ==
    /\ driver.pc = "step"
    /\ Step(aret.action)
    /\ driver' = IF driver.mode = "train"
                 THEN [driver EXCEPT !.pc = "store"]
                 ELSE [driver EXCEPT !.steps = driver.steps + 1,
                                     !.pc = LoopPc("eval", driver.steps + 1,
                                                   driver.max_steps, current_step',
                                                   ret'.done)]
    /\ UNCHANGED agentKept

\* agent.store_experience(state, action, reward, next_state, done)
DriverStore ==
    /\ driver.pc = "store"
    /\ Push([action |-> last_call.arg, reward |-> ret.reward, done |-> ret.done])
    /\ driver' = [driver EXCEPT !.pc = "learn"]
    /\ UNCHANGED envVars

\* loss = agent.learn(); the training loop then counts the step and tests done
DriverLearn ==
    /\ driver.pc = "learn"
    /\ Learn
    /\ driver' = [driver EXCEPT !.steps = driver.steps + 1,
                                !.pc = LoopPc("train", driver.steps + 1,
                                              driver.max_steps, current_step, ret.done)]
    /\ UNCHANGED envVars

DriverNext ==
    TrainEpisode \/ EvaluateAgent \/ DriverSelect \/ DriverStep \/ DriverStore
    \/ DriverLearn

\* the series the driver is run on: those that never fall
DriverSeries == { s \in Series : \A i \in 1..(DataLen - 1) : s[i] <= s[i + 1] }

DriverInit ==
    /\ \E s \in DriverSeries : EnvInitWith(s)
    /\ AgentInitWith(1, 1, MaxFreq, RFrac(1, 100), RFrac(1, 2))
    /\ request = NoRequest
    /\ perf = NoPerf
    /\ driver = Idle

DriverSpec == DriverInit /\ [][DriverNext]_vars

(***************************************************************************)
(* LongSpec: the simulator over one series long enough for the value       *)
(* history to pass 10 points, with a crash to 5 and a recovery, driven by  *)
(* resets and by requests to hold or to buy                                *)
(***************************************************************************)
LongPrices == <<100, 5, 120, 100, 100, 100, 100, 100, 100, 100, 100, 100>>
LongData == [i \in 1..LookbackWindow |-> LongPrices[1]] \o LongPrices
LongRequests == {HOLD, BUY}

LongInit ==
    /\ EnvInitWith(LongData)
    /\ AgentInitWith(MaxCapacity, MaxBatch, MaxFreq, RFrac(1, 100), RFrac(1, 2))
    /\ request = NoRequest
    /\ perf = NoPerf
    /\ driver = Idle

DoLongStep == \E a \in LongRequests : Step(a) /\ UNCHANGED agentVars

LongNext == DoReset \/ DoLongStep

LongSpec == LongInit /\ [][LongNext]_vars


(***************************************************************************)
(* Properties of the simulator (checked under Spec)                        *)
(***************************************************************************)
StepReturned == last_call.op = "step" /\ ~ret.raised
TradeStepReturned == StepReturned /\ "action_blocked" \in DOMAIN ret.info
Executed(i) == actions_taken[i]
LastTrade == trades[Len(trades)]

\* C1: after every step(), total_value = cash + asset_held * the price at the
\* cursor the step has advanced to
C1_TotalValueAtNewCursor ==
    StepReturned =>
        REq(total_value, RAdd(balance, RMul(btc_held, PriceAt(current_step))))

\* C2: from reset() on, exactly one of cash > 0 and asset_held > 0 holds
C2_BinaryPosition ==
    last_call.op # "init" => (RIsPos(balance) /\ ~RIsPos(btc_held))
                             \/ (~RIsPos(balance) /\ RIsPos(btc_held))
C2_Witness ==
    /\ StepReturned /\ Len(trades) >= 3
    /\ RIsPos(btc_held) /\ RIsZero(balance)

\* C3: a step that executes a sell starts with asset_held > 0 and a last
\* trading action other than sell; one that executes a buy starts with
\* cash > 0 and a last trading action other than buy
C3_ExecutedOnlyWhenAllowed ==
    [][ Len(actions_taken') = Len(actions_taken) + 1 =>
          /\ actions_taken'[Len(actions_taken')] = SELL =>
                RIsPos(btc_held) /\ last_trading_action # SELL
          /\ actions_taken'[Len(actions_taken')] = BUY =>
                RIsPos(balance) /\ last_trading_action # BUY ]_vars
C3_Witness ==
    /\ TradeStepReturned /\ ~ret.info.action_blocked
    /\ Executed(Len(actions_taken)) = SELL
    /\ Len(trades) >= 2 /\ LastTrade.action = "sell"

\* C4: the trade log never holds two sells in a row or two buys in a row
C4_TradesAlternate ==
    \A i \in 1..(Len(trades) - 1) : trades[i].action # trades[i + 1].action
C4_Witness ==
    /\ Len(trades) >= 3
    /\ trades[1].action = "buy" /\ trades[2].action = "sell" /\ trades[3].action = "buy"

\* what step() calls an invalid request, the reward of a hold that was forced,
\* and the shape of the tuple step() returns
InvalidRequest(a) ==
    \/ a = SELL /\ (RIsZero(btc_held) \/ last_trading_action = SELL)
    \/ a = BUY /\ (RIsZero(balance) \/ last_trading_action = BUY)
HoldReward(prev, tv, step, las) ==
    RewardTerms(RDiv(RSub(tv, prev), prev), TRUE, RDiv(RInt(step - las), RInt(24)))
WellFormed(r) ==
    /\ Len(r.state.portfolio_info) = 4
    /\ Len(r.state.action_constraints) = 5
    /\ r.done \in BOOLEAN
    /\ DOMAIN r.info = {"portfolio_value", "balance", "btc_held", "current_price",
                        "action_blocked", "last_trading_action", "can_buy", "can_sell"}

\* C5: a sell requested with no holdings or right after a sell, or a buy
\* requested with no cash or right after a buy, does not raise: hold is executed
\* instead, info reports action_blocked, the reward is the reward of that hold
\* without the activity bonus, minus 5, and a well-formed transition is returned
C5_InvalidRequestBecomesHold ==
    [][ ( /\ last_call'.op = "step"
          /\ current_step < Len(data) - 1
          /\ InvalidRequest(last_call'.arg) ) =>
        ( /\ ~ret'.raised
          /\ WellFormed(ret')
          /\ ret'.info.action_blocked
          /\ actions_taken' = Append(actions_taken, HOLD)
          /\ UNCHANGED <<balance, btc_held, last_trading_action, trades>>
          /\ REq(ret'.reward,
                 RAdd(HoldReward(total_value, total_value', current_step',
                                 last_action_step), RInt(-5))) ) ]_vars
C5_Witness ==
    /\ TradeStepReturned /\ ret.info.action_blocked
    /\ last_call.arg = SELL /\ last_trading_action = SELL
    /\ ~RIsZero(ret.reward)

\* C6: step() with the cursor on the last row returns reward 0, done and an
\* error marker, and writes nothing, whatever the action
C6_StepAtEndChangesNothing ==
    [][ (last_call'.op = "step" /\ current_step = Len(data) - 1) =>
        ( /\ ~ret'.raised
          /\ RIsZero(ret'.reward) /\ ret'.done
          /\ "error" \in DOMAIN ret'.info
          /\ UNCHANGED <<balance, btc_held, total_value, last_trading_action,
                         current_step, trades, portfolio_values>> ) ]_vars
C6_Witness ==
    /\ StepReturned /\ current_step = Len(data) - 1
    /\ "error" \in DOMAIN ret.info /\ last_call.arg = BUY
    /\ RIsPos(balance) /\ Len(trades) >= 2

\* C7: a non-terminal step() returns done exactly when the new total_value is
\* below a tenth of the initial balance or the advanced cursor is on the last row
C7_DoneIffLowOrEnd ==
    TradeStepReturned =>
        ( ret.done <=> ( \/ RLt(total_value, RFrac(InitialBalance, 10))
                         \/ current_step >= Len(data) - 1 ) )
C7_Witness ==
    /\ TradeStepReturned /\ ret.done
    /\ current_step < Len(data) - 1

\* C8: reset(start_step) leaves the cursor at max(start_step, lookback)
\* (lookback when omitted) and the account, the logs and the idle time as
\* after construction, whatever the episode before it
C8_ResetState ==
    last_call.op = "reset" =>
        /\ current_step = IF last_call.arg = None \/ last_call.arg < LookbackWindow
                          THEN LookbackWindow ELSE last_call.arg
        /\ balance = RInt(InitialBalance)
        /\ btc_held = RZero
        /\ total_value = RInt(InitialBalance)
        /\ last_trading_action = None
        /\ last_action_step = current_step
        /\ trades = << >> /\ portfolio_values = << >>
        /\ ~ret.raised => /\ RIsZero(ret.state.portfolio_info[4])
                          /\ ret.state.action_constraints = <<0, 1, 1, 1, 1>>
C8_Witness ==
    /\ last_call.op = "reset" /\ last_call.arg = 0
    /\ current_step = LookbackWindow /\ ~ret.raised

(***************************************************************************)
(* Properties of the transition store and of learn() (checked under        *)
(* AgentSpec)                                                              *)
(***************************************************************************)
Stored == { memory[i] : i \in 1..Len(memory) }

\* C9: the store never holds more than capacity transitions, it holds the
\* most recent min(n, capacity) of the n pushed, in push order, and a sampled
\* batch is drawn from them: once capacity + 1 were pushed the first is gone
C9_FifoStore ==
    /\ Len(memory) <= capacity
    /\ Len(memory) = MinOf(n_pushed, capacity)
    /\ \A i \in 1..Len(memory) : memory[i].state = n_pushed - Len(memory) + i
    /\ aret.op = "learn" => aret.batch \subseteq Stored
    /\ n_pushed > capacity =>
          \A e \in Stored \cup (IF aret.op = "learn" THEN aret.batch ELSE {}) :
              e.state # 1
C9_Witness ==
    /\ n_pushed = capacity + 1
    /\ aret.op = "learn" /\ aret.value = "loss"
    /\ Cardinality(aret.batch) = capacity

\* C10: learn() on a store shorter than batch_size returns None and changes
\* nothing; the step counter moves only on a learn() with a full batch stored
C10_LearnNoOpWhenTooFew ==
    [][ /\ (aret'.op = "learn" /\ Len(memory) < batch_size) =>
            ( /\ aret'.value = "None"
              /\ UNCHANGED <<steps_done, epsilon, q_network, target_network, memory>> )
        /\ steps_done' # steps_done =>
            (aret'.op = "learn" /\ Len(memory) >= batch_size) ]_vars
C10_Witness ==
    /\ aret.op = "learn" /\ aret.value = "None"
    /\ Len(memory) > 0 /\ Len(memory) < batch_size

\* C11: across learn() calls epsilon never increases and never drops below
\* the floor epsilon_end
C11_EpsilonMonotoneAboveFloor ==
    [][ aret'.op = "learn" =>
          RLe(epsilon', epsilon) /\ RLe(epsilon_end, epsilon') ]_vars

(***************************************************************************)
(* Properties of the agent across learn, save and load (checked under      *)
(* TrainSpec)                                                              *)
(***************************************************************************)
LearnedNow == aret'.op = "learn" /\ n_updates' = n_updates + 1
SavedFile == checkpoint[1]

\* C12: the learning step that is the K-th since the target estimator was
\* last written (K = target_update_freq) leaves the target estimator's
\* parameters equal to the online estimator's, whatever saves and loads
\* came before
C12_TargetSyncedAtKthStep ==
    [][ (LearnedNow /\ since_sync + 1 = target_update_freq) =>
            target_network' = q_network' ]_vars
C12_Witness ==
    /\ aret.op = "learn" /\ aret.value = "loss"
    /\ target_update_freq = MaxFreq
    /\ n_updates > steps_done
    /\ since_sync = 0 /\ target_network = q_network

C20_TargetWrittenOnlyBySync ==
    [][ /\ target_network' # target_network =>
            /\ target_network' = q_network'
            /\ \/ LearnedNow /\ steps_done' % target_update_freq = 0
               \/ aret'.op = "load_model"
        /\ (LearnedNow /\ steps_done' % target_update_freq # 0) =>
            (q_network' # q_network /\ target_network' = target_network)
        /\ aret'.op \in {"select_action", "push", "get_q_values"} =>
            UNCHANGED <<q_network, target_network>> ]_vars
C20_Witness ==
    /\ aret.op = "learn" /\ aret.value = "loss"
    /\ steps_done % target_update_freq # 0
    /\ target_network # q_network

(***************************************************************************)
(* Properties of the calls that read the estimator (checked under          *)
(* PolicySpec)                                                             *)
(***************************************************************************)
Selected == aret.op = "select_action"
SellFlags(c) == c[1] = 1 /\ c[4] = 1
HoldFlags(c) == c[2] = 1
BuyFlags(c) == c[3] = 1 /\ c[5] = 1
FirstMaxAt(q, a) ==
    /\ \A b \in Actions : ~RLt(q[a], q[b])
    /\ \A b \in Actions : b < a => RLt(q[b], q[a])
SumOver(f) == RAdd(RAdd(f[SELL], f[HOLD]), f[BUY])

\* C13: on the exploration branch select_action returns only an action whose
\* flags are set (sell: flags 0 and 3, hold: flag 1, buy: flags 2 and 4), and
\* hold when no action's flags are set
C13_ExplorationRespectsFlags ==
    (Selected /\ aret.explored) =>
        IF SellFlags(aret.constraints) \/ HoldFlags(aret.constraints)
           \/ BuyFlags(aret.constraints)
        THEN /\ aret.action = SELL => SellFlags(aret.constraints)
             /\ aret.action = HOLD => HoldFlags(aret.constraints)
             /\ aret.action = BUY => BuyFlags(aret.constraints)
        ELSE aret.action = HOLD
C13_Witness ==
    /\ Selected /\ aret.explored /\ aret.action = BUY
    /\ aret.constraints[1] = 1 /\ aret.constraints[4] = 0
    /\ aret.constraints[2] = 1

\* C14: from a state whose flags mark both sell and buy invalid,
\* select_action returns hold on the exploration branch and on the
\* exploitation branch, whatever the estimator's Q-values
C14_HoldWhenSellAndBuyInvalid ==
    (Selected /\ ~SellFlags(aret.constraints) /\ ~BuyFlags(aret.constraints)) =>
        aret.action = HOLD

\* C15: the learning target of a transition with done = true is its reward;
\* with done = false it is reward + gamma * Target(next_state)[a], a being
\* the arg-max of Online(next_state)
C15_TargetOfTransition ==
    aret.op = "learn_target" =>
        IF aret.done
        THEN REq(aret.target, aret.reward)
        ELSE \A a \in Actions :
                FirstMaxAt(aret.online_next, a) =>
                    REq(aret.target,
                        RAdd(aret.reward, RMul(RFrac(GammaNum, GammaDen), aret.target_next[a])))
C15_Witness ==
    /\ aret.op = "learn_target" /\ aret.done
    /\ ~RIsZero(aret.reward)
    /\ \A a \in Actions : ~RIsZero(aret.target_next[a])
    /\ aret.online_next[BUY] # aret.online_next[SELL]

\* C16: the estimator's output is Q(s,a) = V(s) + A(s,a) - mean_a A(s,a), so
\* Q(s,a) - V(s) sums to zero over the actions
C16_DuelingIdentity ==
    aret.op = "get_q_values" =>
        /\ \A a \in Actions :
              REq(RMul(RInt(3), RSub(RAdd(aret.head_value, aret.head_advantage[a]),
                                     aret.q_values[a])),
                  SumOver(aret.head_advantage))
        /\ RIsZero(SumOver([a \in Actions |-> RSub(aret.q_values[a], aret.head_value)]))
C16_Witness ==
    /\ aret.op = "get_q_values"
    /\ ~RIsZero(aret.head_value)
    /\ aret.head_advantage[SELL] # aret.head_advantage[HOLD]
    /\ aret.q_values[SELL] # aret.q_values[HOLD]

(***************************************************************************)
(* Properties of the trade arithmetic (checked under ScenarioSpec and      *)
(* Spec)                                                                   *)
(***************************************************************************)
FeeRate == RFrac(TcNum, TcDen)
AfterFee(x) == RMul(x, RSub(RInt(1), FeeRate))
TradeLogged(kind) ==
    Len(trades') = Len(trades) + 1 /\ trades'[Len(trades')].action = kind
\* x equals the decimal whose digits, in groups of four from the right, are
\* digits, the last `places` groups being the fraction
DecEq(x, digits, places) ==
    /\ x.n > 0 /\ x.k >= 0
    /\ BCmp(BPowMul(BPowMul(BOfNat(x.n), BOfNat(FeeNum), x.k), <<0, 1>>, places),
            BPowMul(BMul(digits, BOfNat(x.d)), BOfNat(FeeDen), x.k)) = 0
ForcedSoFar(n) ==
    /\ data = ScenarioData
    /\ current_step = LookbackWindow + n
    /\ actions_taken = SubSeq(<<BUY, SELL, BUY, SELL>>, 1, n)
ScenarioTotals ==
    /\ ForcedSoFar(1) => DecEq(total_value, <<999>>, 0)
    /\ ForcedSoFar(2) => DecEq(total_value, <<8011, 1097>>, 1)
    /\ ForcedSoFar(3) => DecEq(total_value, <<9890, 7032, 1096>>, 2)
    /\ ForcedSoFar(4) => DecEq(total_value, <<4800, 9413, 8087, 1460>>, 3)

\* C17: an executed buy at price p with cash c leaves cash 0, holdings
\* c(1-f)/p and total_value c(1-f); an executed sell at price p with holdings
\* h leaves holdings 0 and cash = total_value = h p (1-f).  On the prices
\* 100, 110, 90, 120, 80 with f = 0.1% and capital 1000, buy, sell, buy, sell
\* from the first price gives total_value 999, 1097.8011, 1096.7032989 and
\* 1460.8087941348
C17_TradeArithmetic ==
    /\ []ScenarioTotals
    /\ [][ /\ TradeLogged("buy") =>
                /\ RIsZero(balance')
                /\ REq(btc_held', RDiv(AfterFee(balance), PriceAt(current_step)))
                /\ REq(total_value', AfterFee(balance))
           /\ TradeLogged("sell") =>
                /\ RIsZero(btc_held')
                /\ REq(balance', AfterFee(RMul(btc_held, PriceAt(current_step))))
                /\ REq(total_value', balance') ]_vars
C17_Witness ==
    /\ ForcedSoFar(4) /\ Len(trades) = 4
    /\ trades[4].action = "sell" /\ RIsZero(btc_held)

\* C18: after reset, a buy on the first step and hold on every later step,
\* over rising prices, gives after each step total_value = initial_balance *
\* (1 - fee) * (the price that step values the holdings at / the buy price),
\* and a trade log of exactly one entry, the buy
FirstStep == current_step - Len(actions_taken)
BoughtThenHeld ==
    /\ last_call.op = "step" /\ Len(actions_taken) >= 1
    /\ actions_taken[1] = BUY
    /\ \A i \in 2..Len(actions_taken) : actions_taken[i] = HOLD
    /\ \A i \in FirstStep..(current_step - 1) : data[i + 1] < data[i + 2]
C18_BuyAndHoldTracksPrice ==
    BoughtThenHeld =>
        /\ REq(total_value,
               RMul(AfterFee(RInt(InitialBalance)),
                    RDiv(PriceAt(current_step - 1), PriceAt(FirstStep))))
        /\ Len(trades) = 1 /\ trades[1].action = "buy"
C18_Witness ==
    /\ BoughtThenHeld /\ Len(actions_taken) >= 2
    /\ last_call.arg = HOLD
    /\ RLt(RInt(InitialBalance), total_value)

(***************************************************************************)
(* Frame effects, reward terms and constraint flags (checked under Spec)   *)
(***************************************************************************)
LastExecuted == actions_taken[Len(actions_taken)]
TradeAppended == Len(trades') = Len(trades) + 1 /\ SubSeq(trades', 1, Len(trades)) = trades

\* C21: a step whose executed action is hold (requested, or forced by a
\* blocked sell/buy) leaves cash, asset_held, last_trading_action and
\* last_action_step unchanged and appends no trade record; a trade record is
\* appended exactly when a sell or buy is executed
C21_HoldFrame ==
    [][ TradeStepReturned' =>
          /\ LastExecuted' = HOLD =>
                UNCHANGED <<balance, btc_held, last_trading_action,
                            last_action_step, trades>>
          /\ TradeAppended <=> LastExecuted' \in {SELL, BUY}
          /\ ~TradeAppended => trades' = trades ]_vars
C21_Witness ==
    /\ TradeStepReturned /\ ret.info.action_blocked
    /\ last_call.arg = BUY /\ LastExecuted = HOLD
    /\ Len(trades) = 1 /\ RIsPos(btc_held)

\* the terms of a step's reward, from the step's return and its idle time
BaseTerm(return) == RMul(RInt(100), return)
ShapingTerms(return, days) ==
    RAdd(RAdd(
        IF RLt(RInt(30), days)
        THEN RNeg(RMul(RFrac(1, 10), RSub(days, RInt(30)))) ELSE RZero,
        IF RLt(return, RFrac(-5, 100))
        THEN RNeg(RMul(RInt(10), RAbs(return))) ELSE RZero),
        IF RLt(RFrac(5, 100), return) THEN RMul(RInt(5), return) ELSE RZero)
BonusOrPenalty(blocked) == IF blocked THEN RInt(-5) ELSE RFrac(1, 100)
RewardOf(return, days, blocked) ==
    RAdd(RAdd(BaseTerm(return), ShapingTerms(return, days)), BonusOrPenalty(blocked))

\* C23: a step's reward holds the +0.01 activity bonus exactly when the
\* requested action was not blocked (a requested hold included) and the flat
\* -5 exactly when it was blocked; a blocked step gets the base term
\* 100 * (total_value - prev_total_value) / prev_total_value and the shaping
\* terms, minus 5, with no bonus
C23_BonusOrPenalty ==
    [][ (TradeStepReturned' /\ ~ret'.vol_applied) =>
          /\ ret'.info.action_blocked <=> InvalidRequest(last_call'.arg)
          /\ REq(ret'.reward,
                 RewardOf(RDiv(RSub(total_value', total_value), total_value),
                          RDiv(RInt(current_step' - last_action_step'), RInt(24)),
                          InvalidRequest(last_call'.arg))) ]_vars
C23_Witness ==
    /\ TradeStepReturned /\ ret.info.action_blocked /\ ~ret.vol_applied
    /\ last_call.arg = BUY /\ Len(portfolio_values) >= 2
    /\ RLt(portfolio_values[Len(portfolio_values) - 1], total_value)

StateReturned == last_call.op \in {"reset", "step"} /\ ~ret.raised
Bit(b) == IF b THEN 1 ELSE 0

\* C24: in every state returned by reset() or step() the 5 constraint flags
\* are 0 or 1 with flag0 = (asset_held > 0 and last_trading_action # sell),
\* flag1 = 1, flag2 = (cash > 0 and last_trading_action # buy),
\* flag3 = (last_trading_action # sell), flag4 = (last_trading_action # buy);
\* can_sell and can_buy of step's info equal flag0 and flag2
C24_ConstraintFlags ==
    StateReturned =>
        /\ ret.state.action_constraints \in [1..5 -> {0, 1}]
        /\ ret.state.action_constraints =
             << Bit(RIsPos(btc_held) /\ last_trading_action # SELL),
                1,
                Bit(RIsPos(balance) /\ last_trading_action # BUY),
                Bit(last_trading_action # SELL),
                Bit(last_trading_action # BUY) >>
        /\ TradeStepReturned =>
             /\ Bit(ret.info.can_sell) = ret.state.action_constraints[1]
             /\ Bit(ret.info.can_buy) = ret.state.action_constraints[3]
C24_Witness ==
    /\ TradeStepReturned
    /\ ret.state.action_constraints = <<1, 1, 0, 1, 0>>
    /\ ret.info.can_sell /\ ~ret.info.can_buy

\* C27: in every state reachable from reset(), asset_held > 0 iff
\* last_trading_action = buy, and cash > 0 iff last_trading_action is none or
\* sell; hence can_sell is asset_held > 0, can_buy is cash > 0, and the
\* no-consecutive-trade test never blocks what the balance test allows
C27_PositionDeterminesLastAction ==
    last_call.op # "init" =>
        /\ RIsPos(btc_held) <=> last_trading_action = BUY
        /\ RIsPos(balance) <=> last_trading_action \in {None, SELL}
        /\ (RIsPos(btc_held) /\ last_trading_action # SELL) <=> RIsPos(btc_held)
        /\ (RIsPos(balance) /\ last_trading_action # BUY) <=> RIsPos(balance)
        /\ TradeStepReturned =>
             /\ ret.info.can_sell <=> RIsPos(btc_held)
             /\ ret.info.can_buy <=> RIsPos(balance)
C27_Witness ==
    /\ TradeStepReturned /\ last_trading_action = SELL
    /\ Len(trades) = 2 /\ RIsPos(balance) /\ RIsZero(btc_held)
    /\ ret.info.can_buy /\ ~ret.info.can_sell

(***************************************************************************)
(* Properties of long episodes (checked under LongSpec)                    *)
(***************************************************************************)
\* C22: the volatility term of the reward is applied on every step at which
\* the value history holds at least 10 points, and on no step at which it
\* holds fewer than 10
C22_VolatilityFromTenPoints ==
    TradeStepReturned => (ret.vol_applied <=> Len(portfolio_values) >= 10)

\* C28 (as claimed): once step() has returned done = true, every later step()
\* before the next reset() returns done = true
C28_DoneAbsorbing ==
    [][ (StepReturned /\ ret.done /\ last_call'.op = "step") =>
          (~ret'.raised /\ ret'.done) ]_vars

\* C28 (amended): once step() has returned done = true with the cursor on the
\* last row of the series, every later step() before the next reset() returns
\* done = true
C28_DoneAbsorbingAtEnd ==
    [][ (StepReturned /\ ret.done /\ current_step >= Len(data) - 1
         /\ last_call'.op = "step") =>
          (~ret'.raised /\ ret'.done) ]_vars
C28_Witness ==
    /\ StepReturned /\ ret.done /\ current_step = Len(data) - 1
    /\ "error" \in DOMAIN ret.info
    /\ Len(portfolio_values) >= 2

(***************************************************************************)
(* Properties of the performance metrics (checked under ReportSpec)        *)
(***************************************************************************)
Reported == perf.call = "get_portfolio_performance" /\ ~perf.empty
\* the completed cycles of the log, each a buy and the sell that follows it
Cycles == { i \in 1..(Len(trades) - 1) :
              trades[i].action = "buy" /\ trades[i + 1].action = "sell" }
Won == { i \in Cycles : RIsPos(NetProfit(trades[i], trades[i + 1])) }
OpenPosition == Len(trades) > 0 /\ trades[Len(trades)].action = "buy" /\ RIsPos(btc_held)
OpenProfitable == RLt(trades[Len(trades)].price, PriceAt(current_step))

\* C25: get_portfolio_performance reports the win rate over the matched
\* buy -> sell cycles, and when the log holds no completed cycle but a position
\* is open, 1.0 if the open position is profitable at the current price and
\* 0.0 otherwise
C25_WinRate ==
    Reported =>
        /\ Cycles # {} =>
             REq(perf.win_rate, RFrac(Cardinality(Won), Cardinality(Cycles)))
        /\ (Cycles = {} /\ OpenPosition) =>
             REq(perf.win_rate, IF OpenProfitable THEN RInt(1) ELSE RZero)

\* C26: the profit factor is gross profit / gross loss over the step-to-step
\* changes of the value history, and the infinity sentinel only when the gross
\* loss is zero and the gross profit positive (not when both are zero)
C26_ProfitFactor ==
    Reported =>
        /\ perf.profit_factor.inf <=>
             ( RIsZero(GrossLossSum(portfolio_values, 1))
               /\ RIsPos(GrossProfit(portfolio_values, 1)) )
        /\ ~RIsZero(GrossLossSum(portfolio_values, 1)) =>
             REq(perf.profit_factor.value,
                 RDiv(GrossProfit(portfolio_values, 1),
                      RAbs(GrossLossSum(portfolio_values, 1))))

(***************************************************************************)
(* Properties of the driver loops (checked under DriverSpec)               *)
(***************************************************************************)
\* C29: in the driver loop, where each action comes from select_action on
\* the state most recently returned by reset() or step(), no step is blocked
\* by the simulator, in training and in evaluation mode
C29_DriverNeverBlocked ==
    (driver.pc # "idle" /\ TradeStepReturned) => ~ret.info.action_blocked

(***************************************************************************)
(* The cursor (checked under Spec)                                         *)
(***************************************************************************)
\* C30: after reset(start_step), for every start_step, the cursor stays
\* within [lookback, len(data) - 1], every non-terminal step() advances it by
\* exactly one, and no call raises on an exhausted series
C30_CursorInRange ==
    /\ [](last_call.op # "init" =>
            /\ current_step \in LookbackWindow..(Len(data) - 1)
            /\ ~ret.raised)
    /\ [][ (last_call'.op = "step" /\ current_step < Len(data) - 1) =>
              current_step' = current_step + 1 ]_vars

====
